---- MODULE Spec2Model ----
(***************************************************************************)
(* Z407 puck: the BLE worker (Z407PuckApp::ble_loop), the UI thread        *)
(* (eframe::App::update and the command operations built on send_cmd), the *)
(* notification task spawned by the worker, the two mpsc channels and the  *)
(* Mutex-guarded Z407State, as in src/src/main.rs.                         *)
(*                                                                         *)
(* Threads: "ui" (the eframe main thread), "worker" (the thread spawned in *)
(* new, running ble_loop on a tokio runtime) and the notification task the *)
(* worker spawns on that runtime.  Every .await of ble_loop is one step    *)
(* whose outcome (success, error, what the stream yields) is chosen by the *)
(* environment.  Code between two awaits is one atomic step; a step that   *)
(* takes the state Mutex is enabled only while the Mutex is free.          *)
(*                                                                         *)
(* Ghost state (not in the program, used to state properties): the id,    *)
(* connected-at-send tag and operation name carried by each queued         *)
(* command, writes, slept, svcSkipped, falls, ret, reqAfterExit, palette.  *)
(***************************************************************************)
EXTENDS Integers, Sequences, FiniteSets, TLC

\* ---------------------------------------------------------------- bounds
MaxCmds == 2        \* send_cmd invocations that reach the channel send
MaxResp == 1        \* notifications waiting in the response channel
MaxAdv == 1         \* advertisements waiting in the scan stream
MaxElapsed == 12    \* seconds of scan time the clock is followed for

\* -------------------------------------------------------------- constants
ScanTimeout == 10                   \* scan_timeout = Duration::from_secs(10)
SettleMs == 200                     \* sleep(Duration::from_millis(200))
target_name == "Logitech Z407"
INITIATE == <<132, 5>>              \* [0x84, 0x05]
ACKNOWLEDGE == <<132, 0>>           \* [0x84, 0x00]

\* The frame each command operation passes to send_cmd.
volume_up == <<128, 2>>
volume_down == <<128, 3>>
bass_up == <<128, 0>>
bass_down == <<128, 1>>
play_pause == <<128, 4>>
next_track == <<128, 5>>
prev_track == <<128, 6>>
switch_bluetooth == <<129, 1>>
switch_aux == <<129, 2>>
switch_usb == <<129, 3>>
pairing == <<130, 0>>
factory_reset == <<131, 0>>

\* The command operations of Z407PuckApp (the buttons update offers).
Commands ==
  { volume_up, volume_down, bass_up, bass_down, play_pause, next_track,
    prev_track, switch_bluetooth, switch_aux, switch_usb, pairing,
    factory_reset }

\* The command operations by name.
Operations ==
  { "volume_up", "volume_down", "bass_up", "bass_down", "play_pause",
    "next_track", "prev_track", "switch_bluetooth", "switch_aux",
    "switch_usb", "pairing", "factory_reset" }

\* A command operation with the volume_up and volume_down frames exchanged.
OpFrame_VolumeSwapped(op) ==
  CASE op = "volume_up" -> volume_down
    [] op = "volume_down" -> volume_up
    [] op = "bass_up" -> bass_up
    [] op = "bass_down" -> bass_down
    [] op = "play_pause" -> play_pause
    [] op = "next_track" -> next_track
    [] op = "prev_track" -> prev_track
    [] op = "switch_bluetooth" -> switch_bluetooth
    [] op = "switch_aux" -> switch_aux
    [] op = "switch_usb" -> switch_usb
    [] op = "pairing" -> pairing
    [] op = "factory_reset" -> factory_reset

\* pub fn <op>(&self) { self.send_cmd(&[..]) }: the frame operation op
\* passes to send_cmd.
OpFrame(op) ==
  CASE op = "volume_up" -> volume_up
    [] op = "volume_down" -> volume_down
    [] op = "bass_up" -> bass_up
    [] op = "bass_down" -> bass_down
    [] op = "play_pause" -> play_pause
    [] op = "next_track" -> next_track
    [] op = "prev_track" -> prev_track
    [] op = "switch_bluetooth" -> switch_bluetooth
    [] op = "switch_aux" -> switch_aux
    [] op = "switch_usb" -> switch_usb
    [] op = "pairing" -> pairing
    [] op = "factory_reset" -> factory_reset

\* The command operations a run draws its invocations from: one button of
\* the volume row, one of the input row and one of the extras row.
CmdInputs == { "volume_up", "switch_usb", "factory_reset" }

\* The rows of command buttons update lays out: volume, bass, media, input
\* source, extras.
ButtonRows ==
  { {"volume_down", "volume_up"},
    {"bass_down", "bass_up"},
    {"prev_track", "play_pause", "next_track"},
    {"switch_bluetooth", "switch_aux", "switch_usb"},
    {"pairing", "factory_reset"} }

\* Device names an advertisement can resolve to; NoName is name() giving
\* Ok(None) or Err.
NoName == "<none>"
AdvNames == {target_name, "Other", NoName}
Advertisements == [name : AdvNames, hasService : BOOLEAN]
\* Option<Device>: <<>> is None, <<adv>> is Some(the device of adv).
NoDevice == <<>>

\* Raw notification payloads the device can push.
NotifFrames == { <<193, 1>>, <<193, 2>>, <<193, 3>>, <<193, 4>> }

\* hex::encode: two lower-case hexadecimal digits per byte.
HexDigits ==
  << "0", "1", "2", "3", "4", "5", "6", "7",
     "8", "9", "a", "b", "c", "d", "e", "f" >>

HexByte(b) == HexDigits[(b \div 16) + 1] \o HexDigits[(b % 16) + 1]

RECURSIVE HexEncode(_)
HexEncode(data) ==
  IF data = <<>> THEN "" ELSE HexByte(Head(data)) \o HexEncode(Tail(data))

\* A decode table with the AUX and USB rows exchanged.
Decode_Swapped(resp_hex, cur) ==
  CASE resp_hex = "c101" -> "Bluetooth"
    [] resp_hex = "c102" -> "USB"
    [] resp_hex = "c103" -> "AUX"
    [] OTHER -> cur

\* The match of update on one response string.
Decode(resp_hex, cur) ==
  CASE resp_hex = "c101" -> "Bluetooth"
    [] resp_hex = "c102" -> "AUX"
    [] resp_hex = "c103" -> "USB"
    [] OTHER -> cur

\* while let Ok(resp_hex) = rx.try_recv() { match ... }
RECURSIVE PollResponses(_, _)
PollResponses(q, cur) ==
  IF q = <<>> THEN cur ELSE PollResponses(Tail(q), Decode(Head(q), cur))

VARIABLES
  connected,        \* Z407State.connected
  current_input,    \* Z407State.current_input
  scan_requested,   \* Z407State.scan_requested
  lock,             \* holder of the state Mutex: "none", "ui", "worker"
  cmdQ,             \* the command channel (cmd_tx -> cmd_rx)
  cmdRxAlive,       \* cmd_rx not yet dropped
  respQ,            \* the response channel (resp_tx -> resp_rx)
  wpc,              \* position of the worker in ble_loop
  ret,              \* how ble_loop returned
  npc,              \* position of the spawned notification task
  uipc,             \* position of the UI thread
  ui_connected,     \* update's local snapshot `connected`
  advQ,             \* advertisements the scan stream has ready
  elapsed,          \* scan_start.elapsed(), in seconds
  device_opt,       \* the matched device (the name it advertised under)
  svcSkipped,       \* an in-time advertisement of the service was passed over
  linkUp,           \* the link to the device is up
  writes,           \* writes attempted on the command characteristic
  slept,            \* milliseconds slept in the handshake's settle waits
  sent,             \* number of commands handed to tx.send
  falls,            \* times connected went from true to false
  reqAfterExit,     \* "Scan & Connect" was clicked after the worker returned
  palette           \* the command operations this run invokes

vars ==
  << connected, current_input, scan_requested, lock, cmdQ, cmdRxAlive, respQ,
     wpc, ret, npc, uipc, ui_connected, advQ, elapsed, device_opt, svcSkipped,
     linkUp, writes, slept, sent, falls, reqAfterExit, palette >>

stateVars == << connected, current_input, scan_requested >>
scanVars == << advQ, elapsed, device_opt, svcSkipped >>
uiVars == << uipc, ui_connected, reqAfterExit >>
chanVars == << cmdQ, cmdRxAlive, respQ, sent >>

\* Z407PuckApp::new: scan_requested true, the rest Default, both channels
\* created and stored, the worker thread spawned.
Z407PuckApp_new ==
  /\ connected = FALSE
  /\ current_input = ""
  /\ scan_requested = TRUE
  /\ lock = "none"
  /\ cmdQ = <<>>
  /\ cmdRxAlive = TRUE
  /\ respQ = <<>>
  /\ wpc = "start"
  /\ ret = "running"
  /\ npc = "none"
  /\ uipc = "idle"
  /\ ui_connected = FALSE
  /\ advQ = <<>>
  /\ elapsed = 0
  /\ device_opt = NoDevice
  /\ svcSkipped = FALSE
  /\ linkUp = FALSE
  /\ writes = <<>>
  /\ slept = 0
  /\ sent = 0
  /\ falls = 0
  /\ reqAfterExit = FALSE

\* The app after new, in a run that invokes the operations of CmdInputs.
Init == Z407PuckApp_new /\ palette = CmdInputs

\* The app after new, in a run that invokes the operations of one row of
\* buttons, whichever row it is.
InitAllCommands == Z407PuckApp_new /\ palette \in ButtonRows

\* A panic of the main thread ends the process: no thread takes a step
\* after it.
ProcessAlive == uipc # "panicked"

\* ble_loop returns with r: the future and the runtime are dropped, so
\* cmd_rx is dropped with whatever it still holds and the notification task
\* is cancelled.
Return(r) ==
  /\ wpc' = "done"
  /\ ret' = r
  /\ cmdRxAlive' = FALSE
  /\ cmdQ' = <<>>
  /\ npc' = IF npc \in {"subscribing", "streaming"} THEN "cancelled" ELSE npc

\* The worker goes on to position p of ble_loop.
Goto(p) ==
  /\ wpc' = p
  /\ UNCHANGED << ret, cmdRxAlive, cmdQ, npc >>

\* characteristic.write(frame).await with result ok; id is the ghost id of
\* the command the frame came from (0 for the handshake frames), conn the
\* value of connected when it was passed to send_cmd, op the operation that
\* passed it ("handshake" for the handshake frames).
Write(frame, ok, id, conn, op) ==
  writes' = Append(writes, [frame |-> frame, ok |-> ok, id |-> id,
                            conn |-> conn, op |-> op])

\* ------------------------------------------------------------ the worker
\* let s = state.lock().unwrap();
WorkerStartLock ==
  /\ ProcessAlive
  /\ wpc = "start"
  /\ lock = "none"
  /\ lock' = "worker"
  /\ Goto("start_locked")
  /\ UNCHANGED << stateVars, respQ, sent, uiVars, scanVars, linkUp, writes,
                  slept, falls, palette >>

\* A check of scan_requested whose guard lives on into the BLE calls.
WorkerStartCheck_KeepLock ==
  /\ ProcessAlive
  /\ wpc = "start_locked"
  /\ lock' = IF scan_requested THEN lock ELSE "none"
  /\ IF scan_requested THEN Goto("adapter_default")
                       ELSE Return("ScanNotRequested")
  /\ UNCHANGED << stateVars, respQ, sent, uiVars, scanVars, linkUp, writes,
                  slept, falls, palette >>

\* if !s.scan_requested { return Ok(()) }  drop(s);
WorkerStartCheck ==
  /\ ProcessAlive
  /\ wpc = "start_locked"
  /\ lock' = "none"
  /\ IF scan_requested THEN Goto("adapter_default")
                       ELSE Return("ScanNotRequested")
  /\ UNCHANGED << stateVars, respQ, sent, uiVars, scanVars, linkUp, writes,
                  slept, falls, palette >>

\* One await of the adapter set-up: position at, next position to, and the
\* result r returned when the await fails.
AdapterStep(at, to, r) ==
  /\ ProcessAlive
  /\ wpc = at
  /\ \E ok \in BOOLEAN : IF ok THEN Goto(to) ELSE Return(r)
  /\ UNCHANGED << stateVars, lock, respQ, sent, uiVars, scanVars, linkUp,
                  writes, slept, falls, palette >>

\* let Some(adapter) = Adapter::default().await else { return Err("No adapter") }
AdapterDefault == AdapterStep("adapter_default", "adapter_address", "NoAdapter")

\* adapter.address().await?
AdapterAddress == AdapterStep("adapter_address", "wait_available", "AdapterError")

\* adapter.wait_available().await?
WaitAvailable == AdapterStep("wait_available", "scan_open", "AdapterError")

\* adapter.scan(&[]).await?  then scan_start = Instant::now()
ScanOpen ==
  /\ ProcessAlive
  /\ wpc = "scan_open"
  /\ \E ok \in BOOLEAN :
       IF ok THEN Goto("scanning") ELSE Return("AdapterError")
  /\ elapsed' = 0
  /\ UNCHANGED << stateVars, lock, respQ, sent, uiVars, advQ, device_opt,
                  svcSkipped, linkUp, writes, slept, falls, palette >>

\* Environment: a device advertises while the scan is open.
Advertise ==
  /\ ProcessAlive
  /\ wpc = "scanning"
  /\ Len(advQ) < MaxAdv
  /\ \E adv \in Advertisements : advQ' = Append(advQ, adv)
  /\ UNCHANGED << stateVars, lock, chanVars, wpc, ret, npc, uiVars, elapsed,
                  device_opt, svcSkipped, linkUp, writes, slept, falls, palette >>

\* Environment: a second of wall-clock time passes during the scan.
Tick ==
  /\ ProcessAlive
  /\ wpc = "scanning"
  /\ elapsed < MaxElapsed
  /\ elapsed' = elapsed + 1
  /\ UNCHANGED << stateVars, lock, chanVars, wpc, ret, npc, uiVars, advQ,
                  device_opt, svcSkipped, linkUp, writes, slept, falls, palette >>

\* One iteration of `while let Some(adv_device) = scan_handle.next().await`
\* on an advertisement, and the `let Some(mut device) = device_opt else`
\* after a break.  scan_start is not read after the loop: the clock is
\* followed only while scanning.
ScanNext ==
  /\ ProcessAlive
  /\ wpc = "scanning"
  /\ advQ # <<>>
  /\ LET adv == Head(advQ) IN
       IF elapsed > ScanTimeout
         THEN /\ Return("NotFoundTimeout")
              /\ advQ' = <<>>
              /\ elapsed' = 0
              /\ UNCHANGED << device_opt, svcSkipped >>
         ELSE IF adv.name = target_name
                THEN /\ device_opt' = <<adv.name>>
                     /\ advQ' = <<>>
                     /\ elapsed' = 0
                     /\ Goto("connect_device")
                     /\ UNCHANGED svcSkipped
                ELSE /\ advQ' = Tail(advQ)
                     /\ svcSkipped' = (svcSkipped \/ adv.hasService)
                     /\ Goto("scanning")
                     /\ UNCHANGED << device_opt, elapsed >>
  /\ UNCHANGED << stateVars, lock, respQ, sent, uiVars, linkUp, writes,
                  slept, falls, palette >>

\* scan_handle.next().await yields None: the loop ends with device_opt None.
ScanStreamEnd ==
  /\ ProcessAlive
  /\ wpc = "scanning"
  /\ advQ = <<>>
  /\ Return("NotFoundStreamEnd")
  /\ elapsed' = 0
  /\ UNCHANGED << stateVars, lock, respQ, sent, uiVars, advQ, device_opt,
                  svcSkipped, linkUp, writes, slept, falls, palette >>

\* adapter.connect_device(&mut device).await?
ConnectDevice ==
  /\ ProcessAlive
  /\ wpc = "connect_device"
  /\ \E ok \in BOOLEAN :
       IF ok THEN Goto("services") /\ linkUp' = TRUE
             ELSE Return("ConnectFailed") /\ UNCHANGED linkUp
  /\ UNCHANGED << stateVars, lock, respQ, sent, uiVars, scanVars, writes,
                  slept, falls, palette >>

\* device.services().await? and the find of service_uuid
Services ==
  /\ ProcessAlive
  /\ wpc = "services"
  /\ \E r \in {"ok", "ServiceDiscoveryError", "ServiceNotFound"} :
       IF r = "ok" THEN linkUp /\ Goto("characteristics") ELSE Return(r)
  /\ UNCHANGED << stateVars, lock, respQ, sent, uiVars, scanVars, linkUp,
                  writes, slept, falls, palette >>

\* A session that enters the command loop as soon as the characteristics
\* are resolved, without the handshake.
Characteristics_SkipHandshake ==
  /\ ProcessAlive
  /\ wpc = "characteristics"
  /\ \E r \in {"ok", "ServiceDiscoveryError", "CmdCharNotFound",
               "RespCharNotFound"} :
       IF r = "ok"
         THEN /\ linkUp
              /\ wpc' = "loop"
              /\ npc' = "subscribing"
              /\ UNCHANGED << ret, cmdRxAlive, cmdQ >>
         ELSE Return(r)
  /\ UNCHANGED << stateVars, lock, respQ, sent, uiVars, scanVars, linkUp,
                  writes, slept, falls, palette >>

\* service.characteristics().await?, the two finds, and tokio::spawn of the
\* notification task.
Characteristics ==
  /\ ProcessAlive
  /\ wpc = "characteristics"
  /\ \E r \in {"ok", "ServiceDiscoveryError", "CmdCharNotFound",
               "RespCharNotFound"} :
       IF r = "ok"
         THEN /\ linkUp
              /\ wpc' = "write_initiate"
              /\ npc' = "subscribing"
              /\ UNCHANGED << ret, cmdRxAlive, cmdQ >>
         ELSE Return(r)
  /\ UNCHANGED << stateVars, lock, respQ, sent, uiVars, scanVars, linkUp,
                  writes, slept, falls, palette >>

\* A handshake write whose error is not propagated.
HandshakeWrite_NoCheck(at, frame, to) ==
  /\ ProcessAlive
  /\ wpc = at
  /\ \E ok \in BOOLEAN :
       /\ ok => linkUp
       /\ Write(frame, ok, 0, FALSE, "handshake")
       /\ Goto(to)
  /\ UNCHANGED << stateVars, lock, respQ, sent, uiVars, scanVars, linkUp,
                  slept, falls, palette >>

\* One handshake write: cmd_char.write(frame).await?
HandshakeWrite(at, frame, to) ==
  /\ ProcessAlive
  /\ wpc = at
  /\ \E ok \in BOOLEAN :
       /\ ok => linkUp
       /\ Write(frame, ok, 0, FALSE, "handshake")
       /\ IF ok THEN Goto(to) ELSE Return("HandshakeFailed")
  /\ UNCHANGED << stateVars, lock, respQ, sent, uiVars, scanVars, linkUp,
                  slept, falls, palette >>

\* sleep(Duration::from_millis(200)).await
Settle(at, to) ==
  /\ ProcessAlive
  /\ wpc = at
  /\ slept' = slept + SettleMs
  /\ Goto(to)
  /\ UNCHANGED << stateVars, lock, respQ, sent, uiVars, scanVars, linkUp,
                  writes, falls, palette >>

\* A handshake that starts with the second frame.
WriteInitiate_Swapped ==
  HandshakeWrite("write_initiate", ACKNOWLEDGE, "settle1")

\* cmd_char.write(&[0x84, 0x05]).await?
WriteInitiate == HandshakeWrite("write_initiate", INITIATE, "settle1")

Settle1 == Settle("settle1", "write_acknowledge")

\* cmd_char.write(&[0x84, 0x00]).await?
WriteAcknowledge == HandshakeWrite("write_acknowledge", ACKNOWLEDGE, "settle2")

Settle2 == Settle("settle2", "set_connected")

\* let mut s = state.lock().unwrap();   (after the handshake)
SetConnectedLock ==
  /\ ProcessAlive
  /\ wpc = "set_connected"
  /\ lock = "none"
  /\ lock' = "worker"
  /\ Goto("set_connected_locked")
  /\ UNCHANGED << stateVars, respQ, sent, uiVars, scanVars, linkUp, writes,
                  slept, falls, palette >>

\* s.connected = true; s.current_input = "Bluetooth"; and the guard dropped
SetConnected ==
  /\ ProcessAlive
  /\ wpc = "set_connected_locked"
  /\ connected' = TRUE
  /\ current_input' = "Bluetooth"
  /\ lock' = "none"
  /\ Goto("loop")
  /\ UNCHANGED << scan_requested, respQ, sent, uiVars, scanVars, linkUp,
                  writes, slept, falls, palette >>

\* A receive that leaves the message it returns in the queue.
ChannelAfterRecv_Peek(q) == q

\* mpsc::Receiver::try_recv returning Ok: the message at the front of the
\* queue is taken out of it.
ChannelAfterRecv(q) == Tail(q)

\* A command loop that goes on after a failed write.
AfterCommandWrite_NoBreak(ok) == "loop_sleep"

\* if cmd_char.write(&cmd).await.is_err() { break; }
AfterCommandWrite(ok) == IF ok THEN "loop_sleep" ELSE "loop_exit"

\* if let Ok(cmd) = cmd_rx.try_recv() { if cmd_char.write(&cmd).await.is_err() { break } }
LoopTryRecv ==
  /\ ProcessAlive
  /\ wpc = "loop"
  /\ IF cmdQ = <<>>
       THEN Goto("loop_sleep") /\ UNCHANGED writes
       ELSE \E ok \in BOOLEAN :
              /\ ok => linkUp
              /\ Write(Head(cmdQ).frame, ok, Head(cmdQ).id, Head(cmdQ).conn,
                       Head(cmdQ).op)
              /\ cmdQ' = ChannelAfterRecv(cmdQ)
              /\ wpc' = AfterCommandWrite(ok)
              /\ UNCHANGED << ret, cmdRxAlive, npc >>
  /\ UNCHANGED << stateVars, lock, respQ, sent, uiVars, scanVars, linkUp,
                  slept, falls, palette >>

\* sleep(Duration::from_millis(50)).await
LoopSleep ==
  /\ ProcessAlive
  /\ wpc = "loop_sleep"
  /\ Goto("loop")
  /\ UNCHANGED << stateVars, lock, respQ, sent, uiVars, scanVars, linkUp,
                  writes, slept, falls, palette >>

\* let mut s = state.lock().unwrap();   (after the command loop)
LoopExitLock ==
  /\ ProcessAlive
  /\ wpc = "loop_exit"
  /\ lock = "none"
  /\ lock' = "worker"
  /\ Goto("loop_exit_locked")
  /\ UNCHANGED << stateVars, respQ, sent, uiVars, scanVars, linkUp, writes,
                  slept, falls, palette >>

\* An exit from the command loop that returns without clearing connected.
LoopExit_KeepConnected ==
  /\ ProcessAlive
  /\ wpc = "loop_exit_locked"
  /\ lock' = "none"
  /\ Return("WriteFailure")
  /\ UNCHANGED << stateVars, respQ, sent, uiVars, scanVars, linkUp, writes,
                  slept, falls, palette >>

\* s.connected = false; the guard dropped; Ok(())
LoopExit ==
  /\ ProcessAlive
  /\ wpc = "loop_exit_locked"
  /\ connected' = FALSE
  /\ falls' = IF connected THEN falls + 1 ELSE falls
  /\ lock' = "none"
  /\ Return("WriteFailure")
  /\ UNCHANGED << current_input, scan_requested, respQ, sent, uiVars,
                  scanVars, linkUp, writes, slept, palette >>

\* Environment: the device goes away (power off, out of range).
Disconnect ==
  /\ ProcessAlive
  /\ linkUp
  /\ wpc # "done"
  /\ linkUp' = FALSE
  /\ UNCHANGED << stateVars, lock, chanVars, wpc, ret, npc, uiVars, scanVars,
                  writes, slept, falls, palette >>

\* ------------------------------------------------ the notification task
\* A subscription whose failure ends ble_loop with an error.
NotifySubscribe_Fatal ==
  /\ ProcessAlive
  /\ npc = "subscribing"
  /\ \E ok \in BOOLEAN :
       /\ ok => linkUp
       /\ IF ok
            THEN /\ npc' = "streaming"
                 /\ UNCHANGED << cmdQ, cmdRxAlive, wpc, ret >>
            ELSE /\ npc' = "failed"
                 /\ wpc' = "done"
                 /\ ret' = "NotificationSetupFailure"
                 /\ cmdRxAlive' = FALSE
                 /\ cmdQ' = <<>>
  /\ UNCHANGED << stateVars, lock, respQ, sent, uiVars, scanVars, linkUp,
                  writes, slept, falls, palette >>

\* if let Ok(mut notifs) = resp_char.notify().await { .. } else { eprintln }
NotifySubscribe ==
  /\ ProcessAlive
  /\ npc = "subscribing"
  /\ \E ok \in BOOLEAN :
       /\ ok => linkUp
       /\ npc' = IF ok THEN "streaming" ELSE "failed"
  /\ UNCHANGED << stateVars, lock, cmdQ, cmdRxAlive, respQ, sent, wpc, ret,
                  uiVars, scanVars, linkUp, writes, slept, falls, palette >>

\* while let Some(data) = notifs.next().await { resp_tx_clone.send(hex::encode(data)) }
NotifyRecv ==
  /\ ProcessAlive
  /\ npc = "streaming"
  /\ linkUp
  /\ Len(respQ) < MaxResp
  /\ \E data \in NotifFrames : respQ' = Append(respQ, HexEncode(data))
  /\ UNCHANGED << stateVars, lock, cmdQ, cmdRxAlive, sent, wpc, ret, npc,
                  uiVars, scanVars, linkUp, writes, slept, falls, palette >>

\* notifs.next().await yields None once the link is gone: the task ends.
NotifyEnd ==
  /\ ProcessAlive
  /\ npc = "streaming"
  /\ ~linkUp
  /\ npc' = "ended"
  /\ UNCHANGED << stateVars, lock, cmdQ, cmdRxAlive, respQ, sent, wpc, ret,
                  uiVars, scanVars, linkUp, writes, slept, falls, palette >>

\* ---------------------------------------------------------- the UI thread
\* A sender that puts the newest message in front of the queue.
ChannelSend_Front(q, m) == <<m>> \o q

\* mpsc::Sender::send on a channel whose receiver is alive: the message goes
\* to the back of the queue.
ChannelSend(q, m) == Append(q, m)

\* send_cmd: let s = self.state.lock().unwrap(); if let Some(ref tx) =
\* s.cmd_tx { let _ = tx.send(cmd.to_vec()); }
\* cmd_tx is Some from new on.  tx.send fails, and the error is ignored,
\* once cmd_rx is dropped.  std::sync::Mutex is not reentrant: lock() on a
\* Mutex the calling thread already holds does not return, it deadlocks or
\* panics (a panic of the main thread ends the process).
\* op is the operation that makes the call.
send_cmd(op, cmd) ==
  IF lock = "ui"
    THEN /\ \E outcome \in {"deadlocked", "panicked"} : uipc' = outcome
         /\ UNCHANGED << cmdQ, sent >>
    ELSE /\ lock = "none"
         /\ sent < MaxCmds
         /\ sent' = sent + 1
         /\ cmdQ' = IF cmdRxAlive
                      THEN ChannelSend(cmdQ, [frame |-> cmd, id |-> sent + 1,
                                              conn |-> connected, op |-> op])
                      ELSE cmdQ
         /\ UNCHANGED uipc

\* A command operation (volume_up .. factory_reset) invoked by the owner of
\* the app outside update.
CommandOp ==
  /\ ProcessAlive
  /\ uipc = "idle"
  /\ \E op \in palette : send_cmd(op, OpFrame(op))
  /\ UNCHANGED << stateVars, lock, cmdRxAlive, respQ, wpc, ret, npc,
                  ui_connected, reqAfterExit, scanVars, linkUp, writes,
                  slept, falls, palette >>

\* update, first part: let mut s = self.state.lock().unwrap(); the poll of
\* resp_rx; let connected = s.connected.
UpdatePoll ==
  /\ ProcessAlive
  /\ uipc = "idle"
  /\ lock = "none"
  /\ lock' = "ui"
  /\ current_input' = PollResponses(respQ, current_input)
  /\ respQ' = <<>>
  /\ ui_connected' = connected
  /\ uipc' = "render"
  /\ UNCHANGED << connected, scan_requested, cmdQ, cmdRxAlive, sent, wpc,
                  ret, npc, reqAfterExit, scanVars, linkUp, writes, slept,
                  falls, palette >>

\* update, the frame drawn with no button clicked; s dropped at the end.
UpdateNoClick ==
  /\ ProcessAlive
  /\ uipc = "render"
  /\ lock' = "none"
  /\ uipc' = "idle"
  /\ UNCHANGED << stateVars, chanVars, wpc, ret, npc, ui_connected,
                  reqAfterExit, scanVars, linkUp, writes, slept, falls, palette >>

\* update, "Scan & Connect" clicked: s.scan_requested = true.
UpdateClickScan ==
  /\ ProcessAlive
  /\ uipc = "render"
  /\ ~ui_connected
  /\ scan_requested' = TRUE
  /\ reqAfterExit' = (reqAfterExit \/ wpc = "done")
  /\ lock' = "none"
  /\ uipc' = "idle"
  /\ UNCHANGED << connected, current_input, chanVars, wpc, ret, npc,
                  ui_connected, scanVars, linkUp, writes, slept, falls, palette >>

\* update, a command button clicked: self.volume_down() .. self.factory_reset(),
\* each a call of send_cmd while update still holds s.
UpdateClickCommand ==
  /\ ProcessAlive
  /\ uipc = "render"
  /\ ui_connected
  /\ \E op \in palette : send_cmd(op, OpFrame(op))
  /\ UNCHANGED << stateVars, lock, cmdRxAlive, respQ, wpc, ret, npc,
                  ui_connected, reqAfterExit, scanVars, linkUp, writes,
                  slept, falls, palette >>

\* ------------------------------------------------------ the specification
WorkerNext ==
  \/ WorkerStartLock \/ WorkerStartCheck
  \/ AdapterDefault \/ AdapterAddress \/ WaitAvailable \/ ScanOpen
  \/ ScanNext
  \/ ConnectDevice \/ Services \/ Characteristics
  \/ WriteInitiate \/ Settle1 \/ WriteAcknowledge \/ Settle2
  \/ SetConnectedLock \/ SetConnected
  \/ LoopTryRecv \/ LoopSleep \/ LoopExitLock \/ LoopExit

NotifierNext == NotifySubscribe \/ NotifyRecv \/ NotifyEnd

UiNext ==
  UpdatePoll \/ UpdateNoClick \/ UpdateClickScan \/ UpdateClickCommand
    \/ CommandOp

\* What only the environment brings about.
EnvNext == Advertise \/ Tick \/ ScanStreamEnd \/ Disconnect

Next == WorkerNext \/ NotifierNext \/ UiNext \/ EnvNext

Spec == Init /\ [][Next]_vars

\* The same program, over the runs that between them invoke every command
\* operation.
SpecAllCommands == InitAllCommands /\ [][Next]_vars

\* The OS and the tokio runtime run the worker whenever it can take a step,
\* and every BLE operation it awaits completes or fails (the transport's own
\* timeouts); nothing obliges a device to advertise, the scan stream to end,
\* or the user to act.
FairSpec == Spec /\ WF_vars(WorkerNext)

TypeOK ==
  /\ connected \in BOOLEAN
  /\ current_input \in {"", "Bluetooth", "AUX", "USB"}
  /\ scan_requested \in BOOLEAN
  /\ lock \in {"none", "ui", "worker"}
  /\ Len(cmdQ) <= MaxCmds
  /\ Len(respQ) <= MaxResp
  /\ Len(advQ) <= MaxAdv
  /\ elapsed \in 0..MaxElapsed
  /\ Len(device_opt) <= 1
  /\ sent \in 0..MaxCmds
  /\ palette \subseteq Operations

\* ------------------------------------------------------------ properties
\* Indices of the writes made by the command loop (the handshake's two
\* frames carry id 0).
CommandWrites == { i \in 1..Len(writes) : writes[i].id > 0 }

\* Both handshake frames were written, in order, and both writes succeeded.
HandshakeDone ==
  /\ Len(writes) >= 2
  /\ writes[1].frame = INITIATE /\ writes[1].ok
  /\ writes[2].frame = ACKNOWLEDGE /\ writes[2].ok

\* C1: command frames are written in the order they were passed to
\* send_cmd: of two commands written by the command loop, the one passed to
\* send_cmd first (the smaller id) is written first.
C1_FifoOrder ==
  \A i, j \in CommandWrites : i < j => writes[i].id < writes[j].id

\* Two commands were enqueued and both have been written by the command loop.
C1_Witness ==
  \E i, j \in CommandWrites : i < j /\ writes[i].id = 1 /\ writes[j].id = 2

\* C2: a command operation invoked from update returns: the UI thread is
\* never stuck in (or killed by) send_cmd's acquisition of the state lock
\* that update already holds.
C2_NeverBlocks == uipc \notin {"deadlocked", "panicked"}

\* C3: no write to the command characteristic results from a command that
\* was passed to send_cmd while connected was false.
C3_DisconnectedDiscarded == \A i \in CommandWrites : writes[i].conn

\* C4: a write failure in the command loop ends the loop: the failed write
\* is the last write of the session, connected is still true until the exit
\* step clears it, it goes from true to false once, and it is false when
\* ble_loop has returned.
C4_WriteFailureEndsSession ==
  /\ falls <= 1
  /\ \A i \in CommandWrites :
       ~writes[i].ok =>
         /\ i = Len(writes)
         /\ wpc \in {"loop_exit", "loop_exit_locked", "done"}
         /\ wpc \in {"loop_exit", "loop_exit_locked"} => connected /\ falls = 0
         /\ wpc = "done" => ~connected /\ falls = 1 /\ ret = "WriteFailure"

\* A command write failed and the worker has finished the session.
C4_Witness ==
  /\ wpc = "done"
  /\ ret = "WriteFailure"
  /\ \E i \in CommandWrites : ~writes[i].ok
  /\ ~connected /\ falls = 1

\* C5: ACKNOWLEDGE is written only as the second write of the session,
\* after a successful write of INITIATE and one settle wait of SettleMs.
C5_HandshakeOrder ==
  /\ \A i \in 1..Len(writes) :
       (writes[i].id = 0 /\ writes[i].frame = ACKNOWLEDGE) =>
         /\ i = 2
         /\ writes[1].frame = INITIATE /\ writes[1].ok
         /\ slept >= SettleMs
  /\ Len(writes) >= 1 => writes[1].frame = INITIATE
  /\ wpc = "settle2" => slept = SettleMs

\* ACKNOWLEDGE has just been written.
C5_Witness ==
  /\ wpc = "settle2"
  /\ Len(writes) = 2
  /\ writes[2].frame = ACKNOWLEDGE

\* C6: connected goes from false to true only when both handshake writes
\* have succeeded, and the same step sets current_input to "Bluetooth".
C6_ConnectedAfterHandshake ==
  [][(~connected /\ connected') =>
       (HandshakeDone /\ current_input' = "Bluetooth")]_vars

\* connected has become true.
C6_Witness == connected /\ HandshakeDone /\ wpc = "loop"

\* C7: after a session has ended, a connect request from the UI eventually
\* starts a new Discovery cycle (the worker is running again).
C7_ReconnectOnRequest == reqAfterExit ~> (wpc # "done")

\* C8: Discovery ends within the timeout: the worker is not scanning any
\* more once scan_timeout has elapsed since scan start.
C8_ScanBounded == wpc = "scanning" => elapsed <= ScanTimeout

\* C9: when scanning ends without a device, the adapter is unavailable, or
\* connecting fails, scan_requested is false afterwards and connected is
\* still false.
C9_RequestCleared ==
  (wpc = "done" /\ ret \in {"NotFoundTimeout", "NotFoundStreamEnd",
                            "NoAdapter", "AdapterError", "ConnectFailed"})
    => (~scan_requested /\ ~connected)

\* C10: Discovery accepts the first advertisement, scanned before the
\* timeout, whose service set holds the target service UUID, whatever its
\* name: no such advertisement is passed over.
C10_MatchByService == ~svcSkipped

\* The input source a response string names; "" when it names none.
NamedSource(resp_hex) ==
  IF resp_hex = "c101" THEN "Bluetooth"
  ELSE IF resp_hex = "c102" THEN "AUX"
  ELSE IF resp_hex = "c103" THEN "USB"
  ELSE ""

\* Positions of the response strings of q that name a source.
Recognized(q) == { i \in 1..Len(q) : NamedSource(q[i]) # "" }

\* The greatest element of a non-empty set of numbers.
Last(S) == CHOOSE i \in S : \A j \in S : j <= i

\* C11: the poll of update decodes by the table c101 -> Bluetooth, c102 ->
\* AUX, c103 -> USB and leaves current_input alone on every other frame: after
\* a poll current_input is the source named by the last recognized frame
\* polled, or what it was when none was recognized; and decoding a frame a
\* second time changes nothing.
C11_DecodeTable ==
  /\ [][(uipc = "idle" /\ uipc' = "render") =>
          current_input' =
            IF Recognized(respQ) = {} THEN current_input
            ELSE NamedSource(respQ[Last(Recognized(respQ))])]_vars
  /\ [](\A i \in 1..Len(respQ) :
          Decode(respQ[i], Decode(respQ[i], current_input))
            = Decode(respQ[i], current_input))

\* update has just decoded a c103 notification.
C11_Witness == uipc = "render" /\ current_input = "USB" /\ respQ = <<>>

\* C12: the worker is the only writer of connected and current_input: no
\* step of the UI thread (update, a command operation) changes either.
C12_WorkerSoleWriter ==
  [][UiNext => UNCHANGED << connected, current_input >>]_vars

\* How many entries of seq carry the ghost id.
CountId(seq, id) == Cardinality({ i \in 1..Len(seq) : seq[i].id = id })

\* A write of the command loop has failed.
CommandWriteFailed == \E i \in CommandWrites : ~writes[i].ok

\* C13: a command enqueued during the session is consumed exactly once: it
\* is never written twice; until ble_loop returns it is either still in the
\* channel or has been written once; and a command enqueued while connected
\* is eventually written unless a write of the session fails first (or the
\* process ends).
C13_ConsumedOnce ==
  /\ [](\A id \in 1..sent :
          /\ CountId(writes, id) <= 1
          /\ wpc # "done" => CountId(writes, id) + CountId(cmdQ, id) = 1)
  /\ \A id \in 1..MaxCmds :
       (\E i \in 1..Len(cmdQ) : cmdQ[i].id = id /\ cmdQ[i].conn)
         ~> (CountId(writes, id) = 1 \/ CommandWriteFailed \/ ~ProcessAlive)

\* volume_up was invoked while connected and its frame [0x80, 0x02] has been
\* written, once.
C13_Witness ==
  \E i \in CommandWrites :
    /\ writes[i].conn /\ writes[i].ok
    /\ writes[i].frame = <<128, 2>>
    /\ CountId(writes, writes[i].id) = 1

\* Positions of ble_loop from the command loop to the exit block: device,
\* cmd_char and resp_char are live locals, the handshake is behind, and
\* ble_loop has not returned.
InSession == wpc \in {"loop", "loop_sleep", "loop_exit", "loop_exit_locked"}

\* C14: whenever connected is true the worker is inside a session past the
\* handshake, holding the matched device, and has not returned.
C14_ConnectedImpliesSession ==
  connected => (InSession /\ device_opt # NoDevice /\ HandshakeDone)

\* connected is true during the command loop's sleep.
C14_Witness == connected /\ wpc = "loop_sleep"

\* The opcode table: the frame of each command operation.
C15_OpcodeTable ==
  [ volume_up |-> <<128, 2>>, volume_down |-> <<128, 3>>,
    bass_up |-> <<128, 0>>, bass_down |-> <<128, 1>>,
    play_pause |-> <<128, 4>>,
    next_track |-> <<128, 5>>, prev_track |-> <<128, 6>>,
    switch_bluetooth |-> <<129, 1>>, switch_aux |-> <<129, 2>>,
    switch_usb |-> <<129, 3>>,
    pairing |-> <<130, 0>>, factory_reset |-> <<131, 0>> ]

\* C15: each command operation enqueues exactly its 2-byte frame of the
\* opcode table (one message, at the back of the queue), every frame waiting
\* in the channel is the table's frame of the operation that enqueued it,
\* and the frame the command loop writes is that same frame.
C15_FrameTable ==
  /\ [](\A i \in 1..Len(cmdQ) :
          /\ cmdQ[i].op \in Operations
          /\ Len(cmdQ[i].frame) = 2
          /\ cmdQ[i].frame = C15_OpcodeTable[cmdQ[i].op])
  /\ [](\A i \in CommandWrites :
          /\ writes[i].op \in Operations
          /\ writes[i].frame = C15_OpcodeTable[writes[i].op])
  /\ [][(sent' = sent + 1 /\ cmdRxAlive) =>
          /\ Len(cmdQ') = Len(cmdQ) + 1
          /\ SubSeq(cmdQ', 1, Len(cmdQ)) = cmdQ
          /\ cmdQ'[Len(cmdQ')].op \in palette
          /\ cmdQ'[Len(cmdQ')].frame = C15_OpcodeTable[cmdQ'[Len(cmdQ')].op]]_vars
  /\ [][(Len(writes') = Len(writes) + 1 /\ wpc = "loop") =>
          /\ cmdQ # <<>>
          /\ writes'[Len(writes')].frame = Head(cmdQ).frame
          /\ writes'[Len(writes')].op = Head(cmdQ).op]_vars

\* Both operations of the extras row were invoked and their frames written.
C15_Witness ==
  \E i, j \in CommandWrites :
    /\ writes[i].op = "pairing" /\ writes[i].frame = <<130, 0>>
    /\ writes[j].op = "factory_reset" /\ writes[j].frame = <<131, 0>>

\* Positions of ble_loop between the spawn of the notification task and the
\* exit block at which the next step needs no lock.
AfterSpawnNoLock ==
  wpc \in {"write_initiate", "settle1", "write_acknowledge", "settle2",
           "loop", "loop_sleep"}

\* C16: a failed subscription is not fatal.  The step in which notify()
\* fails changes nothing of the worker, the channel or the shared state;
\* after it the worker can still take each next step of the handshake and
\* of the command loop, sets connected when it has the lock, and returns
\* only for a failed handshake write or a failed command write.
C16_SubscribeFailureNonFatal ==
  /\ [][(npc # "failed" /\ npc' = "failed") =>
          UNCHANGED << wpc, ret, writes, slept, connected, current_input,
                       cmdQ, cmdRxAlive, lock >>]_vars
  /\ []((npc = "failed" /\ wpc = "done") =>
          ret \in {"HandshakeFailed", "WriteFailure"})
  /\ []((npc = "failed" /\ ProcessAlive /\ AfterSpawnNoLock) =>
          ENABLED WorkerNext)
  /\ []((npc = "failed" /\ ProcessAlive /\ wpc = "set_connected"
           /\ lock = "none") => ENABLED SetConnectedLock)
  /\ [][(npc = "failed" /\ wpc = "set_connected_locked" /\ wpc' # wpc) =>
          (connected' /\ wpc' = "loop")]_vars
  /\ [][(npc = "failed" /\ wpc = "loop" /\ cmdQ # <<>> /\ wpc' # wpc) =>
          (Len(writes') = Len(writes) + 1 /\ cmdQ' = Tail(cmdQ))]_vars

\* The subscription failed, the session is Active and a command enqueued
\* while connected has been written to the device.
C16_Witness ==
  /\ npc = "failed" /\ connected /\ wpc = "loop_sleep"
  /\ \E i \in CommandWrites : writes[i].ok /\ writes[i].conn

\* C17: a device disconnect while the session is Active eventually ends the
\* Active state and sets connected = false, whether or not a command is
\* issued afterwards: from a state with connected true and the link down,
\* the worker reaches its exit block or connected becomes false (or the
\* process has ended).
C17_DisconnectEndsActive ==
  (connected /\ ~linkUp)
    ~> (~connected \/ wpc \in {"loop_exit", "loop_exit_locked"}
          \/ ~ProcessAlive)

\* Returns of ble_loop made before cmd_char exists.
ResolveFailures == {"ServiceNotFound", "CmdCharNotFound", "RespCharNotFound"}

\* C18: no command frame is written before the handshake of the session has
\* completed: whenever the command loop has written a frame, the first two
\* writes of the session are INITIATE and ACKNOWLEDGE, both successful, and
\* every command write comes after them with both settle waits slept; a
\* worker that returned because the service or a characteristic was missing
\* made no write at all.
C18_HandshakeBeforeCommands ==
  /\ [](CommandWrites # {} =>
          /\ HandshakeDone
          /\ slept = 2 * SettleMs
          /\ \A i \in CommandWrites : i > 2
          /\ \A i \in 1..Len(writes) : i <= 2 <=> writes[i].id = 0)
  /\ [](ret \in ResolveFailures => writes = <<>>)
  /\ [](wpc \in {"start", "start_locked", "adapter_default",
                 "adapter_address", "wait_available", "scan_open",
                 "scanning", "connect_device", "services",
                 "characteristics"} => writes = <<>>)
  /\ [][(Len(writes') > Len(writes) /\ writes'[Len(writes')].id > 0) =>
          (HandshakeDone /\ wpc = "loop")]_vars

\* A command frame has been written as the third write of a session,
\* after both handshake frames.
C18_Witness ==
  /\ Len(writes) = 3
  /\ writes[3].id > 0
  /\ writes[3].frame = <<129, 3>>

\* C19: the worker's assignment of "Bluetooth" when the handshake completes
\* never overwrites an input source the UI already decoded from a
\* notification of the same session.  current_input is "" until something
\* is decoded or the worker assigns it, so the step that sets connected
\* either finds it "" or leaves it as it is.
C19_DefaultKeepsDecodedInput ==
  [][(~connected /\ connected') =>
       (current_input = "" \/ current_input' = current_input)]_vars

\* C20: the worker holds the state lock only inside its three critical
\* sections (the scan_requested check, the assignment after the handshake,
\* the assignment at exit); at every position where it awaits BLE I/O or
\* sleeps the lock is not the worker's, and a worker step that takes the
\* lock is followed by no await before the release.
C20_NoLockAcrossAwait ==
  /\ [](lock = "worker" <=>
          wpc \in {"start_locked", "set_connected_locked", "loop_exit_locked"})
  /\ []((lock = "worker" /\ ProcessAlive) =>
          ENABLED (WorkerNext /\ lock' = "none"))
  /\ [][(lock = "worker" /\ wpc' # wpc) =>
          (lock' = "none"
             /\ UNCHANGED << writes, slept, advQ, elapsed, device_opt,
                             linkUp >>)]_vars

\* The worker sleeps in the command loop while the UI thread holds the lock
\* in update.
C20_Witness == wpc = "loop_sleep" /\ lock = "ui" /\ uipc = "render"

====
